---- MODULE Spec2Model ----
(***************************************************************************)
(* Privacy manager and privatizer hierarchy of the Trixel Management       *)
(* Service: src/src/privatizer/manager.py (PrivacyManager) and             *)
(* src/src/privatizer/privatizer.py (Privatizer), with the accept-every-   *)
(* sensor policy of src/src/privatizer/latest_privatizer.py.               *)
(*                                                                         *)
(* Privatizers are Python objects.  _sensor_map and a privatizer's         *)
(* _parent_privatizer hold object references, so an object that the tick   *)
(* deleted from _privatizers can still be referenced.  Such an object is   *)
(* never registered again and nothing reads its sensors or counts, so a    *)
(* reference is modelled by what it can be told apart by: whether it is    *)
(* the object registered now ("registered") or one that was removed from   *)
(* the table ("removed"), and for the latter its _id and the same for its  *)
(* own _parent_privatizer.                                                 *)
(***************************************************************************)
EXTENDS Integers, FiniteSets, Sequences, TLC

\* ----------------------------------------------------------- configuration
\* GlobalConfig.config.max_level (configurable in 1..24; the model runs with 3).
max_level == 3

\* The largest count of the children given to the k-satisfier computation.
MaxChildCount == 2

\* ------------------------------------------------------- trixel id algebra
\* HTM ids: the root trixels are 8..15, a child is 4 * parent + (0..3).
RECURSIVE Level(_)
Level(t) == IF t < 16 THEN 0 ELSE 1 + Level(t \div 4)

Parent(t) == t \div 4

\* The trixel ids that can hold a privatizer in the model: one root, two of
\* its children, one grandchild and one trixel of the deepest level.
Trixels == {8, 32, 33, 128, 512}

Children(t) == {c \in Trixels : c \div 4 = t /\ c >= 16}

\* The sub trixel ids a client may send: the above, and one id below max_level.
SubTrixels == Trixels \cup {2048}

Levels == 0 .. max_level

\* ------------------------------------------------------------ delegations
\* trixel_id >> (n * 2): the ancestor n levels above.
RECURSIVE ShiftRight(_, _)
ShiftRight(t, n) == IF n = 0 THEN t ELSE ShiftRight(t \div 4, n - 1)

\* common.is_delegated, lines 26-35: the delegations "above" the trixel id
\* with their levels, in the order of the list.
RECURSIVE super_trixels(_, _, _)
super_trixels(delegations, trixel_id, i) ==
  IF i > Len(delegations) THEN <<>>
  ELSE (IF /\ Level(trixel_id) >= Level(delegations[i].trixel_id)
           /\ ShiftRight(trixel_id, Level(trixel_id) - Level(delegations[i].trixel_id))
                = delegations[i].trixel_id
        THEN <<delegations[i]>> ELSE <<>>) \o super_trixels(delegations, trixel_id, i + 1)

\* Python's max(list, key = level): the first element of the largest level.
RECURSIVE max_by_level(_, _)
max_by_level(list, i) ==
  IF i = Len(list) THEN list[i]
  ELSE IF Level(list[i].trixel_id) >= Level(max_by_level(list, i + 1).trixel_id)
       THEN list[i] ELSE max_by_level(list, i + 1)

\* The first element of the smallest level.
RECURSIVE min_by_level(_, _)
min_by_level(list, i) ==
  IF i = Len(list) THEN list[i]
  ELSE IF Level(list[i].trixel_id) <= Level(min_by_level(list, i + 1).trixel_id)
       THEN list[i] ELSE min_by_level(list, i + 1)

\* is_delegated that lets the shallowest delegation above the id decide.
is_delegated_by_shallowest(delegations, trixel_id) ==
  /\ super_trixels(delegations, trixel_id, 1) # <<>>
  /\ ~min_by_level(super_trixels(delegations, trixel_id, 1), 1).exclude

\* common.is_delegated (None, the result for an exclusion, is falsy).
is_delegated(delegations, trixel_id) ==
  /\ super_trixels(delegations, trixel_id, 1) # <<>>
  /\ ~max_by_level(super_trixels(delegations, trixel_id, 1), 1).exclude

\* An is_active that refuses no request.
is_active_refusing_none(active) == TRUE

\* common.is_active, the dependency of the endpoints: it raises 503 'TMS
\* not active!' unless tms_config.active; TRUE when the request is admitted.
is_active(active) == active

\* The whole root trixel 8 is delegated to this TMS.
RootDelegated == <<[trixel_id |-> 8, exclude |-> FALSE]>>

\* ------------------------------------------------------ sensors, stations
\* UniqueSensorId = (ms_uuid, sensor_id).  Station A owns two sensors.
AllSensors == {"A0", "A1", "B0", "C0"}

ms_uuid(s) == CASE s = "A0" -> "A" [] s = "A1" -> "A" [] s = "B0" -> "B" [] OTHER -> "C"

Stations == {ms_uuid(s) : s \in AllSensors}

\* The k requirements a station may have (k_requirement is a PositiveInt).
AllK == {1, 2, 4}

\* ------------------------------------------------------- privatizer object
\* None for a float value; a submitted measurement carries the value 1 or None.
NoValue == 0

NoUpdate == [has |-> FALSE, value |-> NoValue, ms |-> 0, sc |-> 0]

\* manager.py 387-389: the "trixel state unknown" update of a stale privatizer.
UnknownUpdate == [has |-> TRUE, value |-> NoValue, ms |-> 0, sc |-> 0]

\* No count for a trixel (a key that a dictionary of counts does not hold).
NoCount == -1

\* TLSManager: how a publish of counts ends (returns, raises TLSError,
\* raises TLSCriticalError on HTTP 401).
TLSResults == {"ok", "TLSError", "TLSCriticalError"}

\* No level was processed by the last step.
NoSweep == [published |-> [t \in Trixels |-> NoCount], outcome |-> "none",
            inserted |-> [t \in Trixels |-> NoUpdate], stale_privatizers |-> {},
            previous |-> [t \in Trixels |-> NoUpdate], changed |-> {}]

\* No privatizer registered for a trixel id.
Blank ==
  [live |-> FALSE, id |-> 0, parent_privatizer |-> "none", sensors |-> {},
   shadow_map |-> [s \in AllSensors |-> "none"],
   evaluation_map |-> [s \in AllSensors |-> "none"],
   contributing_ms_count |-> 0, contributing_sensor_count |-> 0,
   tls_ms_count |-> -1, last_update |-> NoUpdate, stale |-> FALSE,
   current_contributors |-> {}, last_value |-> NoValue]

\* Privatizer.__init__ and LatestPrivatizer.__init__: a fresh object for
\* trixel t; pp tells what its _parent_privatizer refers to.
NewPrivatizer(t, pp) == [Blank EXCEPT !.live = TRUE, !.id = t, !.parent_privatizer = pp]

\* --------------------------------------------------------------- variables
VARIABLES
  privatizers,   \* PrivacyManager._privatizers[type]: trixel id -> object
  sensor_map,    \* PrivacyManager._sensor_map: sensor -> object reference
  level_lookup,  \* PrivacyManager._level_lookup: level -> set of trixel ids
  k_map,         \* PrivacyManager._k_map: station -> k (0: no entry)
  life_cycles,   \* PrivacyManager._life_cycles: sensor -> contributing flag
  ms_k,          \* the station's k_requirement stored in the database
  tick,          \* the running sweep: levels still to process
  last,          \* the last completed operation and its result
  increase_at,   \* sensor -> the sub-trixel of its latest hint if that was
                 \* INCREASE and neither the sensor was deleted nor its
                 \* station's k requirement changed since (0 otherwise)
  raised,        \* the sensors whose latest contribute raised an exception
  in_both,       \* the sensors whose latest contribute found them non-shadow
                 \* in the child and in the parent
  routing,       \* the local variables of the last contribute that returned
                 \* (manager.py 240-250)
  sweep,         \* the last processed level: the counts sent to the TLS, how
                 \* the TLS answered, the observations inserted, the
                 \* privatizers removed as stale and what each had published
  tls,           \* the TLS: the station count it holds for each trixel, and
                 \* whether it has answered a publish with HTTP 401
  tms,           \* GlobalConfig.config.tms_config (active, delegations) and
                 \* where periodic_processing stands (waiting for the TMS to
                 \* be active, or in its loop of ticks)
  measurements,  \* the (sensor, timestamp) pairs of the stored measurements
  http,          \* the last batch update request and its response
  calc,          \* one evaluation of the k-satisfier computation on its own
  universe,      \* the sensors, k values and sub-trixels of this run
  contributed    \* per sensor, the sub-trixel of its latest contribute that
                 \* returned a hint since the last tick ended and since the
                 \* station's requirement was set, or 0

vars == <<privatizers, sensor_map, level_lookup, k_map, life_cycles, ms_k,
          tick, last, increase_at, raised, in_both, routing, sweep, tls, tms, measurements,
          http, calc, universe, contributed>>

\* The manager's state as one value, for the operators that transform it.
Mgr == [privatizers |-> privatizers, sensor_map |-> sensor_map,
        level_lookup |-> level_lookup, k_map |-> k_map, life_cycles |-> life_cycles]

\* ------------------------------------------------------------ small helpers
\* Let(v, LAMBDA x : e) is e with x bound to the value of v, which is
\* evaluated once however often e uses x.
Let(v, Op(_)) == CHOOSE r \in {Op(b) : b \in {v}} : TRUE

Max(S) == CHOOSE x \in S : \A y \in S : y <= x

Min(S) == CHOOSE x \in S : \A y \in S : x <= y

RECURSIVE SumOver(_, _)
SumOver(f, S) == IF S = {} THEN 0
                 ELSE LET x == CHOOSE y \in S : TRUE IN f[x] + SumOver(f, S \ {x})

\* All enumeration orders of a finite set.
Perms(S) == {f \in [1 .. Cardinality(S) -> S] : \A i, j \in 1 .. Cardinality(S) : f[i] = f[j] => i = j}

\* ------------------------------------------------- Privatizer (base class)
\* Privatizer.sensor_in_shadow_mode: True unless the map says False.
sensor_in_shadow_mode(o, s) == o.shadow_map[s] # "F"

\* add_sensor that starts every added sensor in shadow mode.
add_sensor_resetting_shadow(o, s, should_evaluate) ==
  [o EXCEPT !.sensors = @ \cup {s},
            !.shadow_map[s] = "T",
            !.evaluation_map[s] = IF should_evaluate THEN "T" ELSE "F"]

\* Privatizer.add_sensor
add_sensor(o, s, should_evaluate) ==
  [o EXCEPT !.sensors = @ \cup {s},
            !.shadow_map[s] = IF @ = "none" THEN "T" ELSE @,
            !.evaluation_map[s] = IF should_evaluate THEN "T" ELSE "F"]

\* Privatizer.remove_sensor (LatestPrivatizer does not override it)
remove_sensor(o, s) ==
  [o EXCEPT !.sensors = @ \ {s}, !.shadow_map[s] = "none"]

\* LatestPrivatizer.new_value for a measurement with value v
new_value(o, s, v) ==
  [o EXCEPT !.last_value = IF ~sensor_in_shadow_mode(o, s) /\ v # NoValue THEN v ELSE @,
            !.current_contributors = @ \cup {s}]

\* Iterating self._children raises TypeError when it is None, which is the
\* case for a privatizer of level max_level; the error propagates through the
\* recursion of every registered ancestor.
RECURSIVE Crashes(_, _)
Crashes(M, t) ==
  \/ Level(t) >= max_level
  \/ \E c \in Children(t) : M.privatizers[c].live /\ Crashes(M, c)

\* Privatizer.get_total_contributing_ms_count (where it does not raise) of
\* the privatizer registered for t
RECURSIVE get_total_contributing_ms_count(_, _)
get_total_contributing_ms_count(M, t) ==
  Let([c \in Children(t) |->
         IF M.privatizers[c].live THEN get_total_contributing_ms_count(M, c) ELSE 0],
      LAMBDA sub : M.privatizers[t].contributing_ms_count + SumOver(sub, Children(t)))

\* Privatizer.get_total_contributing_sensor_count
RECURSIVE get_total_contributing_sensor_count(_, _)
get_total_contributing_sensor_count(M, t) ==
  Let([c \in Children(t) |->
         IF M.privatizers[c].live THEN get_total_contributing_sensor_count(M, c) ELSE 0],
      LAMBDA sub : M.privatizers[t].contributing_sensor_count + SumOver(sub, Children(t)))

\* ------------------------------------------------------------ the manager
\* An entry of _sensor_map: the object registered for id, or an object of
\* that id that was removed from the table (parent: its _parent_privatizer).
NoContribution == [s \in AllSensors |-> 0]

\* The history of contributions is recorded in the runs that ask for it.
Recorded(c) == IF universe.history THEN c ELSE NoContribution

NoRef == [id |-> 0, obj |-> "none", parent |-> "none"]

RegisteredRef(t) == [id |-> t, obj |-> "registered", parent |-> "none"]

\* get_privatizer that registers the new object without entering its trixel
\* id into _level_lookup.
RECURSIVE get_privatizer_without_lookup(_, _)
get_privatizer_without_lookup(M, t) ==
  IF M.privatizers[t].live THEN M
  ELSE Let(IF Level(t) > 0 THEN get_privatizer_without_lookup(M, Parent(t)) ELSE M, LAMBDA M2 :
         [M2 EXCEPT !.privatizers[t] =
            NewPrivatizer(t, IF Level(t) > 0 THEN "registered" ELSE "none")])

\* PrivacyManager.get_privatizer(trixel_id, type, instantiate=True): the
\* trixel id enters _level_lookup, the constructor gets the parent
\* (recursively), the new object is registered last.
RECURSIVE get_privatizer(_, _)
get_privatizer(M, t) ==
  IF M.privatizers[t].live THEN M
  ELSE Let([M EXCEPT !.level_lookup[Level(t)] = @ \cup {t}], LAMBDA M1 :
       Let(IF Level(t) > 0 THEN get_privatizer(M1, Parent(t)) ELSE M1, LAMBDA M2 :
         [M2 EXCEPT !.privatizers[t] =
            NewPrivatizer(t, IF Level(t) > 0 THEN "registered" ELSE "none")]))

\* manager_remove_sensor without the deletion of the _sensor_map entry.
remove_sensor_keeps_entry(M, s) ==
  LET ref == M.sensor_map[s]
      pp == IF ref.obj = "registered" THEN M.privatizers[ref.id].parent_privatizer ELSE ref.parent
      in_existing == ref.obj = "registered"
      in_parent == pp = "registered"
  IN IF ref.obj = "none" THEN M
     ELSE [M EXCEPT
             !.privatizers = [t \in Trixels |->
                IF (in_existing /\ t = ref.id) \/ (in_parent /\ t = Parent(ref.id))
                THEN remove_sensor(M.privatizers[t], s) ELSE M.privatizers[t]]]

\* PrivacyManager.remove_sensor: the sensor leaves the object of _sensor_map
\* and that object's _parent_privatizer.
manager_remove_sensor(M, s) ==
  LET ref == M.sensor_map[s]
      pp == IF ref.obj = "registered" THEN M.privatizers[ref.id].parent_privatizer ELSE ref.parent
      in_existing == ref.obj = "registered"
      in_parent == pp = "registered"
  IN IF ref.obj = "none" THEN M
     ELSE [M EXCEPT
             !.privatizers = [t \in Trixels |->
                IF (in_existing /\ t = ref.id) \/ (in_parent /\ t = Parent(ref.id))
                THEN remove_sensor(M.privatizers[t], s) ELSE M.privatizers[t]],
             !.sensor_map[s] = NoRef]

RECURSIVE RemoveAll(_, _)
RemoveAll(M, S) ==
  IF S = {} THEN M
  ELSE Let(CHOOSE x \in S : TRUE, LAMBDA s :
       Let(manager_remove_sensor(M, s), LAMBDA M1 : RemoveAll(M1, S \ {s})))

\* change_direction without the test for the first contribution.
change_direction_ignores_first(contribute_to_child, shadow_c, first_contribution, parent_level, contribute_to_parent) ==
  IF contribute_to_child /\ ~shadow_c THEN "INCREASE"
  ELSE IF parent_level > 0 /\ ~contribute_to_parent THEN "DECREASE"
  ELSE "KEEP"

\* change_direction without the test for the shadow mode in the child.
change_direction_ignores_shadow(contribute_to_child, shadow_c, first_contribution, parent_level, contribute_to_parent) ==
  IF contribute_to_child THEN "INCREASE"
  ELSE IF ~first_contribution /\ parent_level > 0 /\ ~contribute_to_parent THEN "DECREASE"
  ELSE "KEEP"

\* The level change recommended by contribute (manager.py 275-280).
change_direction(contribute_to_child, shadow_c, first_contribution, parent_level, contribute_to_parent) ==
  IF contribute_to_child /\ ~shadow_c THEN "INCREASE"
  ELSE IF ~first_contribution /\ parent_level > 0 /\ ~contribute_to_parent THEN "DECREASE"
  ELSE "KEEP"

\* manager.py 229-238: a sensor that changed its target trixel is removed,
\* _sensor_map then refers to the privatizer registered for sub.
set_sensor_map(M, sub, s) ==
  Let(IF M.sensor_map[s].obj # "none" /\ M.sensor_map[s].id # sub
      THEN manager_remove_sensor(M, s) ELSE M, LAMBDA M1 :
    [M1 EXCEPT !.sensor_map[s] = RegisteredRef(sub)])

\* route with the child also receiving a sensor that is in shadow mode in
\* both the child and the parent.
route_shadow_to_child(M, sub, s, v, k, first_contribution, to_child, to_parent0) ==
  LET parent == Parent(sub)
      shadow_c == sensor_in_shadow_mode(M.privatizers[sub], s)
      shadow_p == sensor_in_shadow_mode(M.privatizers[parent], s)
      only_shadow == shadow_c /\ shadow_p
      to_parent == to_parent0 /\ ~to_child
      oc == IF (to_child /\ ~shadow_c) \/ shadow_c
            THEN new_value(add_sensor(M.privatizers[sub], s, ~shadow_c \/ only_shadow), s, v)
            ELSE remove_sensor(M.privatizers[sub], s)
      op == IF to_parent \/ shadow_p
            THEN new_value(add_sensor(M.privatizers[parent], s, ~shadow_p \/ only_shadow), s, v)
            ELSE remove_sensor(M.privatizers[parent], s)
  IN [m |-> [M EXCEPT !.privatizers[sub] = oc, !.privatizers[parent] = op],
      result |-> change_direction(to_child, shadow_c, first_contribution, Level(parent), to_parent),
      first |-> first_contribution, both |-> ~shadow_c /\ ~shadow_p,
      routing |-> [contribute_to_child |-> to_child, contribute_to_parent |-> to_parent,
                   shadow_contributing_to_child |-> shadow_c,
                   shadow_contributing_to_parent |-> shadow_p]]

\* manager.py 243-280: the sensor is added to or removed from the child and
\* the parent; to_child and to_parent0 are the comparisons of lines 240-241.
route(M, sub, s, v, k, first_contribution, to_child, to_parent0) ==
  LET parent == Parent(sub)
      shadow_c == sensor_in_shadow_mode(M.privatizers[sub], s)
      shadow_p == sensor_in_shadow_mode(M.privatizers[parent], s)
      only_shadow == shadow_c /\ shadow_p
      to_parent == to_parent0 /\ ~to_child
      oc == IF (to_child /\ ~shadow_c) \/ (shadow_c /\ ~shadow_p)
            THEN new_value(add_sensor(M.privatizers[sub], s, ~shadow_c \/ only_shadow), s, v)
            ELSE remove_sensor(M.privatizers[sub], s)
      op == IF to_parent \/ shadow_p
            THEN new_value(add_sensor(M.privatizers[parent], s, ~shadow_p \/ only_shadow), s, v)
            ELSE remove_sensor(M.privatizers[parent], s)
  IN [m |-> [M EXCEPT !.privatizers[sub] = oc, !.privatizers[parent] = op],
      result |-> change_direction(to_child, shadow_c, first_contribution, Level(parent), to_parent),
      first |-> first_contribution, both |-> ~shadow_c /\ ~shadow_p,
      routing |-> [contribute_to_child |-> to_child, contribute_to_parent |-> to_parent,
                   shadow_contributing_to_child |-> shadow_c,
                   shadow_contributing_to_parent |-> shadow_p]]

\* The local variables of contribute before the first contribution of a call.
NoRouting ==
  [contribute_to_child |-> FALSE, contribute_to_parent |-> FALSE,
   shadow_contributing_to_child |-> TRUE, shadow_contributing_to_parent |-> TRUE]

\* PrivacyManager.contribute: the new manager state, the result (a hint or
\* the exception raised) and whether it was the sensor's first contribution.
contribute(M, sub, s, v, k) ==
  IF Level(sub) = 0 \/ Level(sub) > max_level
  THEN [m |-> M, result |-> "ValueError", first |-> FALSE, both |-> FALSE,
        routing |-> NoRouting]
  ELSE Let(get_privatizer(M, sub), LAMBDA M1 :
       Let(get_privatizer(M1, Parent(sub)), LAMBDA M2 :
       Let(set_sensor_map(M2, sub, s), LAMBDA M3 :
         IF Crashes(M3, sub) \/ Crashes(M3, Parent(sub))
         THEN [m |-> M3, result |-> "TypeError", first |-> M2.sensor_map[s].obj = "none",
               both |-> FALSE, routing |-> NoRouting]
         ELSE Let(get_total_contributing_ms_count(M3, sub) >= k, LAMBDA to_child :
              Let(get_total_contributing_ms_count(M3, Parent(sub)) >= k, LAMBDA to_parent0 :
                route(M3, sub, s, v, k, M2.sensor_map[s].obj = "none", to_child, to_parent0))))))

\* ----------------------------------------------- Privatizer.process (tick)
\* LatestPrivatizer.pre_processing: every sensor that sent nothing since the
\* previous process() is removed through the manager.
pre_processing(M, t) ==
  Let(RemoveAll(M, M.privatizers[t].sensors \ M.privatizers[t].current_contributors),
      LAMBDA M1 : [M1 EXCEPT !.privatizers[t].current_contributors = {}])

\* privatizer.py 436-440: the satisfier counts are added up in place while the
\* dictionary is enumerated; order is the enumeration order of its keys.
RECURSIVE add_over_satisfiers(_, _, _)
add_over_satisfiers(sat, order, i) ==
  IF i > Len(order) THEN sat
  ELSE IF order[i] \notin DOMAIN sat THEN add_over_satisfiers(sat, order, i + 1)
  ELSE Let([sat EXCEPT ![order[i]] =
              @ + SumOver(sat, {other_k \in DOMAIN sat : order[i] > other_k})],
           LAMBDA added : add_over_satisfiers(added, order, i + 1))

\* privatizer.py 430-440: shadow_k_satisfiers after both loops: the stations
\* are counted per k requirement, then the over-satisfiers are added.
shadow_k_satisfiers(kmap, stations, order) ==
  Let([k \in {kmap[m] : m \in stations} |-> Cardinality({m \in stations : kmap[m] = k})],
      LAMBDA counted : add_over_satisfiers(counted, order, 1))

\* privatizer.py 442-447: the highest k that the satisfiers of a privatizer
\* plus the stations of its children reach.
shadow_max_k(satisfiers, child_ms_count) ==
  Max({0} \cup {k \in DOMAIN satisfiers : satisfiers[k] + child_ms_count >= k})

\* LatestPrivatizer.get_value: the average of the children's values (every
\* value is 1 in the model), or the latest value of this privatizer.
get_value(M, t) ==
  IF \E c \in Children(t) : M.privatizers[c].live /\ M.privatizers[c].last_update.value # NoValue
  THEN 1 ELSE M.privatizers[t].last_value

\* Privatizer.process up to the evaluation of the sensors (406-419);
\* LatestPrivatizer.evaluate_sensor_quality accepts every sensor.
evaluate_sensors(M, t) ==
  Let(pre_processing(M, t), LAMBDA M1 :
    [M1 EXCEPT !.life_cycles = [s \in AllSensors |->
       IF s \in M1.privatizers[t].sensors /\ M1.privatizers[t].evaluation_map[s] = "T"
       THEN "T" ELSE @[s]]])

\* privatizer.py 417-419: the sensors of the privatizer whose lifecycle says
\* contributing.
contributing_sensor_set(M, t) == {s \in M.privatizers[t].sensors : M.life_cycles[s] = "T"}

\* The sensors a privatizer sets to non-shadow mode (449-452).
unlocked(o, kmap, maxk) == {s \in o.sensors : kmap[ms_uuid(s)] <= maxk}

\* privatizer.py 421-458: the sensors whose k requirement is met leave shadow
\* mode and the object that _parent_privatizer refers to; the others enter
\* shadow mode.
unlock_sensors(M, t, child_ms_count, order) ==
  Let(unlocked(M.privatizers[t], M.k_map,
               shadow_max_k(shadow_k_satisfiers(M.k_map,
                                                {ms_uuid(s) : s \in contributing_sensor_set(M, t)},
                                                order),
                            child_ms_count)),
      LAMBDA unlock :
        [M EXCEPT !.privatizers = [x \in Trixels |->
           IF x = t
           THEN [M.privatizers[t] EXCEPT !.shadow_map = [s \in AllSensors |->
                   IF s \in M.privatizers[t].sensors
                   THEN (IF s \in unlock THEN "F" ELSE "T") ELSE @[s]]]
           ELSE IF M.privatizers[t].parent_privatizer = "registered" /\ x = Parent(t)
           THEN [M.privatizers[x] EXCEPT !.sensors = @ \ unlock,
                   !.shadow_map = [s \in AllSensors |-> IF s \in unlock THEN "none" ELSE @[s]]]
           ELSE M.privatizers[x]]])

\* The stations counted as contributing (460-469).
contributing_ms(o, sensor_set) == {ms_uuid(s) : s \in {x \in sensor_set : o.shadow_map[x] = "F"}}

\* privatizer.py 460-474: the counts of the privatizer and its stale flag.
count_contributors(M, t, child_ms_count) ==
  LET o == M.privatizers[t]
      sensor_set == contributing_sensor_set(M, t)
      ms_count == Cardinality(contributing_ms(o, sensor_set))
  IN [M EXCEPT !.privatizers[t] =
        [o EXCEPT !.contributing_ms_count = ms_count,
                  !.contributing_sensor_count =
                      Cardinality({s \in sensor_set : o.shadow_map[s] = "F"}),
                  !.stale = ~(ms_count + child_ms_count > 0 \/ o.sensors # {})]]

\* The update with changed = True also for a first update that holds a
\* value or a count.
trixel_update_changed_at_first(M, t, child_ms_count) ==
  LET o == M.privatizers[t]
      upd == [has |-> TRUE, value |-> get_value(M, t),
              ms |-> o.contributing_ms_count + child_ms_count,
              sc |-> get_total_contributing_sensor_count(M, t)]
  IN [m |-> [M EXCEPT !.privatizers[t].last_update = upd],
      update |-> upd,
      changed |-> ([o.last_update EXCEPT !.has = TRUE] # upd),
      update_tls |-> (upd.ms # o.tls_ms_count),
      failed |-> FALSE]

\* privatizer.py 475-500: the TrixelUpdate of this tick and whether the TLS
\* must learn the new station count.
trixel_update(M, t, child_ms_count) ==
  LET o == M.privatizers[t]
      upd == [has |-> TRUE, value |-> get_value(M, t),
              ms |-> o.contributing_ms_count + child_ms_count,
              sc |-> get_total_contributing_sensor_count(M, t)]
  IN [m |-> [M EXCEPT !.privatizers[t].last_update = upd],
      update |-> upd,
      changed |-> (o.last_update.has /\ o.last_update # upd),
      update_tls |-> (upd.ms # o.tls_ms_count),
      failed |-> FALSE]

\* The policy's get_value raises for this trixel (privatizer.py 481 has no
\* handler around the call).
get_value_raises(t) == t \in universe.raising

\* Privatizer.process of the privatizer registered for t: [m: the new state,
\* update: the TrixelUpdate, update_tls, failed: TypeError raised by
\* get_total_contributing_ms_count, or the exception of get_value].
process(M, t, order) ==
  Let(evaluate_sensors(M, t), LAMBDA M1 :
    IF Crashes(M1, t)
    THEN [m |-> M1, update |-> NoUpdate, changed |-> FALSE, update_tls |-> FALSE, failed |-> TRUE]
    ELSE Let(get_total_contributing_ms_count(M1, t) - M1.privatizers[t].contributing_ms_count,
             LAMBDA child_ms_count :
         Let(unlock_sensors(M1, t, child_ms_count, order), LAMBDA M2 :
         Let(count_contributors(M2, t, child_ms_count), LAMBDA M3 :
           IF get_value_raises(t)
           THEN [m |-> M3, update |-> NoUpdate, changed |-> FALSE, update_tls |-> FALSE,
                 failed |-> TRUE]
           ELSE trixel_update(M3, t, child_ms_count)))))

\* The levels in ascending order (sorted without reverse=True).
RECURSIVE SortedAscending(_)
SortedAscending(S) == IF S = {} THEN <<>> ELSE <<Min(S)>> \o SortedAscending(S \ {Min(S)})

\* --------------------------------------------- PrivacyManager.process (tick)
RECURSIVE SortedDescending(_)
SortedDescending(S) == IF S = {} THEN <<>> ELSE <<Max(S)>> \o SortedDescending(S \ {Max(S)})

\* A stale privatizer leaves no final update behind.
trixel_updates_entry_without_final(update, changed, stale) ==
  IF update.value # NoValue \/ changed THEN update ELSE NoUpdate

\* manager.py 379-389: the entry of trixel_updates for a privatizer that
\* returned update (NoUpdate: no entry); privatizer.value is the value of
\* the update that process() has just stored.
trixel_updates_entry(update, changed, stale) ==
  IF stale /\ update.value # NoValue THEN UnknownUpdate
  ELSE IF update.value # NoValue \/ changed THEN update
  ELSE NoUpdate

\* manager.py 369-395: process_trixel for every registered privatizer of one
\* level, in the order trixel_order.  acc collects stale_privatizers, the
\* privatizers of tls_updates, trixel_updates, the privatizers whose update
\* has changed = True, and whether a task raised.
RECURSIVE process_trixels(_, _, _, _)
process_trixels(acc, trixel_order, i, order) ==
  IF i > Len(trixel_order) THEN acc
  ELSE Let(process(acc.m, trixel_order[i], order), LAMBDA r :
       Let([m |-> r.m,
            failed |-> acc.failed \/ r.failed,
            tls_updates |-> IF ~r.failed /\ r.update_tls
                            THEN acc.tls_updates \cup {trixel_order[i]} ELSE acc.tls_updates,
            trixel_updates |-> IF r.failed THEN acc.trixel_updates
                               ELSE [acc.trixel_updates EXCEPT ![trixel_order[i]] =
                                       trixel_updates_entry(r.update, r.changed,
                                           r.m.privatizers[trixel_order[i]].stale)],
            stale_privatizers |-> IF ~r.failed /\ r.m.privatizers[trixel_order[i]].stale
                                  THEN acc.stale_privatizers \cup {trixel_order[i]}
                                  ELSE acc.stale_privatizers,
            changed |-> IF r.changed THEN acc.changed \cup {trixel_order[i]}
                        ELSE acc.changed],
           LAMBDA next : process_trixels(next, trixel_order, i + 1, order)))

\* PrivacyManager._batch_publish_measurement_station_count: on success every
\* published privatizer takes the published count as its tls_ms_count.
batch_publish(M, tls_updates, tls_ok) ==
  IF ~tls_ok THEN M
  ELSE [M EXCEPT !.privatizers = [t \in Trixels |->
           IF t \in tls_updates
           THEN [M.privatizers[t] EXCEPT !.tls_ms_count = M.privatizers[t].last_update.ms]
           ELSE M.privatizers[t]]]

\* manager.py 397-399: stale privatizers leave _privatizers[type] (and only
\* that table).  Every reference to a deleted object now refers to an object
\* that is no longer registered.
remove_stale(M, stale_privatizers) ==
  [M EXCEPT
     !.privatizers = [t \in Trixels |->
        IF t \in stale_privatizers THEN Blank
        ELSE IF M.privatizers[t].live /\ Level(t) > 0 /\ Parent(t) \in stale_privatizers
                /\ M.privatizers[t].parent_privatizer = "registered"
        THEN [M.privatizers[t] EXCEPT !.parent_privatizer = "removed"]
        ELSE M.privatizers[t]],
     !.sensor_map = [s \in AllSensors |->
        IF M.sensor_map[s].obj = "registered" /\ M.sensor_map[s].id \in stale_privatizers
        THEN [id |-> M.sensor_map[s].id, obj |-> "removed",
              parent |-> M.privatizers[M.sensor_map[s].id].parent_privatizer]
        ELSE IF M.sensor_map[s].obj = "removed" /\ M.sensor_map[s].parent = "registered"
                /\ Parent(M.sensor_map[s].id) \in stale_privatizers
        THEN [M.sensor_map[s] EXCEPT !.parent = "removed"]
        ELSE M.sensor_map[s]]]

\* manager.py 363-403 for one level: the privatizers are processed, the
\* stale ones are removed, the counts are published (tls_updates: the
\* counts sent, those of the removed privatizers included), the
\* observations are inserted (trixel_updates).  A TypeError of a task ends
\* the sweep after the tasks of the level ran.
process_level(M, trixel_order, order, tls_ok) ==
  Let(process_trixels([m |-> M, failed |-> FALSE, tls_updates |-> {}, stale_privatizers |-> {},
                       trixel_updates |-> NoSweep.inserted, changed |-> {}],
                      trixel_order, 1, order),
      LAMBDA acc :
        IF acc.failed
        THEN [m |-> acc.m, failed |-> TRUE, tls_updates |-> NoSweep.published,
              trixel_updates |-> NoSweep.inserted, stale_privatizers |-> {},
              changed |-> acc.changed]
        ELSE Let(remove_stale(acc.m, acc.stale_privatizers), LAMBDA M1 :
               [m |-> batch_publish(M1, acc.tls_updates \ acc.stale_privatizers, tls_ok),
                failed |-> FALSE,
                tls_updates |-> [t \in Trixels |-> IF t \in acc.tls_updates
                                                   THEN acc.m.privatizers[t].last_update.ms
                                                   ELSE NoCount],
                trixel_updates |-> acc.trixel_updates,
                stale_privatizers |-> acc.stale_privatizers,
                changed |-> acc.changed]))

\* The trixel map of the TLS after the publish of a level: a publish that
\* returns stores the counts sent, one that raises stores nothing.
tls_map_after(count, r, tls_result) ==
  [t \in Trixels |->
     IF ~r.failed /\ r.tls_updates[t] # NoCount /\ tls_result = "ok"
     THEN r.tls_updates[t] ELSE count[t]]

\* ------------------------------------------------------- unreadable state
\* The state of a privatizer that the program can still read: the evaluation
\* flag and the contributor mark of a sensor that is not in _sensors are
\* overwritten (add_sensor, new_value) or dropped (pre_processing) before
\* anything reads them.
Live(o) ==
  [o EXCEPT !.evaluation_map = [s \in AllSensors |-> IF s \in o.sensors THEN @[s] ELSE "none"],
            !.current_contributors = @ \cap o.sensors]

Install(M) ==
  /\ privatizers' = [t \in Trixels |-> Live(M.privatizers[t])]
  /\ sensor_map' = M.sensor_map
  /\ level_lookup' = M.level_lookup
  /\ k_map' = M.k_map
  /\ life_cycles' = M.life_cycles

\* What the last operation was and how it ended: the operation, the sensor
\* of a contribute or remove_sensor, the sub-trixel of a contribute (0
\* otherwise), the hint returned or exception raised,
\* first_contribution of a contribute, and whether the sensor's previous
\* hint was INCREASE for the same sub-trixel with only ticks and requests of
\* other stations in between.
Op(op, s, result, first, again) ==
  [op |-> op, sensor |-> s, sub |-> 0, result |-> result, first |-> first, again |-> again]

\* ------------------------------------------- store_and_process_updates
\* No batch update was answered yet.
NoRequest ==
  [request |-> <<>>, status |-> 0, reason |-> "none",
   sensors |-> [s \in AllSensors |-> "KEEP"], trixel_ids |-> {}]

\* The timestamps of the measurements of a run.
Timestamps == {1, 2}

\* A batch update of one station: the measurements in the order in which
\* the dictionary and its lists enumerate them, each with its trixel.
Entries(u) == [trixel : u.subs, sensor : u.sensors, timestamp : Timestamps]

Batches(u) ==
  {<<e>> : e \in Entries(u)} \cup
  UNION {{<<e, f>> : f \in {g \in Entries(u) : ms_uuid(g.sensor) = ms_uuid(e.sensor)}} :
           e \in Entries(u)}

\* No sensor of the batch has a result yet.
NoResults == [s \in AllSensors |-> [result |-> "none", sub |-> 0, both |-> FALSE]]

\* PrivacyManager.batch_contribute (manager.py 303-319): the contributions
\* in order; an exception of contribute ends the loop and propagates.
RECURSIVE batch_contribute(_, _, _, _, _)
batch_contribute(acc, updates, i, value, k) ==
  IF i > Len(updates) \/ acc.error # "none" THEN acc
  ELSE Let(contribute([acc.m EXCEPT !.k_map[ms_uuid(updates[i].sensor)] = k],
                      updates[i].trixel, updates[i].sensor, value, k),
           LAMBDA r :
             batch_contribute(
               [m |-> r.m,
                error |-> IF r.result \in {"KEEP", "INCREASE", "DECREASE"} THEN "none"
                          ELSE r.result,
                adjust_trixel_map |->
                    IF r.result \in {"INCREASE", "DECREASE"}
                    THEN [acc.adjust_trixel_map EXCEPT ![updates[i].sensor] = r.result]
                    ELSE acc.adjust_trixel_map,
                results |-> [acc.results EXCEPT ![updates[i].sensor] =
                               [result |-> r.result, sub |-> updates[i].trixel,
                                both |-> r.both]]],
               updates, i + 1, value, k))

\* The sensors of a list of measurements, and their (sensor, timestamp) pairs.
sensor_ids(updates) == {updates[i].sensor : i \in 1 .. Len(updates)}
Pairs(updates) == {<<updates[i].sensor, updates[i].timestamp>> : i \in 1 .. Len(updates)}

Response(request, status, reason, sensors, trixel_ids) ==
  [request |-> request, status |-> status, reason |-> reason, sensors |-> sensors,
   trixel_ids |-> trixel_ids]

\* process_updates with the contributions made before insert_sensor_updates
\* validates and stores the measurements.
process_updates_contributing_first(M, stored, batch, updates, invalid_trixels, value, k) ==
  Let(batch_contribute([m |-> M, error |-> "none",
                        adjust_trixel_map |-> NoRequest.sensors, results |-> NoResults],
                       updates, 1, value, k),
      LAMBDA acc :
        [m |-> acc.m,
         stored |-> IF Len(updates) # Cardinality(sensor_ids(updates))
                       \/ Pairs(updates) \cap stored # {}
                    THEN stored ELSE stored \cup Pairs(updates),
         results |-> acc.results,
         response |->
           IF Len(updates) # Cardinality(sensor_ids(updates))
           THEN Response(batch, 400, "ValueError", NoRequest.sensors, {})
           ELSE IF Pairs(updates) \cap stored # {}
           THEN Response(batch, 400, "IntegrityError", NoRequest.sensors, {})
           ELSE IF acc.error = "ValueError"
           THEN Response(batch, 400, "ValueError", NoRequest.sensors, {})
           ELSE IF acc.error # "none"
           THEN Response(batch, 500, acc.error, NoRequest.sensors, {})
           ELSE IF acc.adjust_trixel_map # NoRequest.sensors
           THEN Response(batch, 303, "CHANGE_TRIXEL", acc.adjust_trixel_map, {})
           ELSE IF invalid_trixels # {}
           THEN Response(batch, 303, "WRONG_TMS", NoRequest.sensors, invalid_trixels)
           ELSE Response(batch, 200, "none", NoRequest.sensors, {})])

\* The part of store_and_process_updates after the removal of the invalid
\* trixels (measurement_station.py 335-381): insert_sensor_updates raises
\* ValueError for two updates of one sensor and IntegrityError for a stored
\* (sensor, timestamp); then batch_contribute; then the response.
process_updates(M, stored, batch, updates, invalid_trixels, value, k) ==
  IF Len(updates) # Cardinality(sensor_ids(updates))
  THEN [m |-> M, stored |-> stored, results |-> NoResults,
        response |-> Response(batch, 400, "ValueError", NoRequest.sensors, {})]
  ELSE IF Pairs(updates) \cap stored # {}
  THEN [m |-> M, stored |-> stored, results |-> NoResults,
        response |-> Response(batch, 400, "IntegrityError", NoRequest.sensors, {})]
  ELSE Let(batch_contribute([m |-> M, error |-> "none",
                             adjust_trixel_map |-> NoRequest.sensors, results |-> NoResults],
                            updates, 1, value, k),
           LAMBDA acc :
             [m |-> acc.m, stored |-> stored \cup Pairs(updates), results |-> acc.results,
              response |->
                IF acc.error = "ValueError"
                THEN Response(batch, 400, "ValueError", NoRequest.sensors, {})
                ELSE IF acc.error # "none"
                THEN Response(batch, 500, acc.error, NoRequest.sensors, {})
                ELSE IF acc.adjust_trixel_map # NoRequest.sensors
                THEN Response(batch, 303, "CHANGE_TRIXEL", acc.adjust_trixel_map, {})
                ELSE IF invalid_trixels # {}
                THEN Response(batch, 303, "WRONG_TMS", NoRequest.sensors, invalid_trixels)
                ELSE Response(batch, 200, "none", NoRequest.sensors, {})])

\* store_and_process_updates (measurement_station.py 323-381): the trixels
\* that are not delegated are popped from the batch first.
store_and_process_updates(M, stored, delegations, batch, value, k) ==
  process_updates(M, stored, batch,
                  SelectSeq(batch, LAMBDA e : is_delegated(delegations, e.trixel)),
                  {batch[i].trixel : i \in {j \in 1 .. Len(batch) :
                                              ~is_delegated(delegations, batch[j].trixel)}},
                  value, k)

\* ------------------------------------------------------------------ actions
\* The tick awaits IO (the TLS request, the insert of the observations)
\* between two levels, where the event loop runs the request handlers; a
\* universe without interleave has no request arrive while a tick runs.
MayRun == universe.interleave \/ ~tick.running

\* One measurement of sensor s for trixel sub arrives (store_and_process_updates
\* -> batch_contribute -> contribute); k is the station's k_requirement.
BatchContribute(sub, s) ==
  /\ MayRun
  /\ is_active(tms.active)
  /\ s \in universe.sensors
  /\ sub \in universe.subs
  /\ is_delegated(tms.delegations, sub)
  /\ \E M0 \in {[Mgr EXCEPT !.k_map[ms_uuid(s)] = ms_k[ms_uuid(s)]]} :
     \E r \in {contribute(M0, sub, s, universe.value, ms_k[ms_uuid(s)])} :
       /\ Install(r.m)
       /\ last' = [Op("contribute", s, r.result, r.first, increase_at[s] = sub)
                     EXCEPT !.sub = sub]
       /\ increase_at' = [increase_at EXCEPT ![s] = IF r.result = "INCREASE" THEN sub ELSE 0]
       /\ raised' = IF r.result \in {"ValueError", "TypeError"}
                    THEN raised \cup {s} ELSE raised \ {s}
       /\ in_both' = IF r.both THEN in_both \cup {s} ELSE in_both \ {s}
       /\ routing' = r.routing
       /\ contributed' = Recorded(IF r.result \in {"KEEP", "INCREASE", "DECREASE"}
                                   THEN [contributed EXCEPT ![s] = sub] ELSE contributed)
  /\ sweep' = NoSweep
  /\ UNCHANGED <<ms_k, tick, tls, tms, measurements,
                 calc, universe>>
  /\ http' = NoRequest

\* delete_sensor / delete_measurement_station -> PrivacyManager.remove_sensor
RemoveSensor(s) ==
  /\ MayRun
  /\ is_active(tms.active)
  /\ s \in universe.sensors
  /\ \E M1 \in {manager_remove_sensor(Mgr, s)} : Install(M1)
  /\ last' = Op("remove_sensor", s, "-", FALSE, FALSE)
  /\ increase_at' = [increase_at EXCEPT ![s] = 0]
  /\ raised' = raised \ {s}
  /\ in_both' = in_both \ {s}
  /\ routing' = NoRouting
  /\ sweep' = NoSweep
  /\ contributed' = [contributed EXCEPT ![s] = 0]
  /\ UNCHANGED <<ms_k, tick, tls, tms, measurements,
                 calc, universe>>
  /\ http' = NoRequest

\* put_measurement_station -> PrivacyManager.set_k_requirement
SetKRequirement(m, k) ==
  /\ MayRun
  /\ is_active(tms.active)
  /\ m \in {ms_uuid(s) : s \in universe.sensors}
  /\ k \in universe.ks[m]
  /\ ms_k[m] # k
  /\ k_map' = [k_map EXCEPT ![m] = k]
  /\ ms_k' = [ms_k EXCEPT ![m] = k]
  /\ last' = Op("set_k_requirement", "-", "-", FALSE, FALSE)
  /\ increase_at' = [s \in AllSensors |-> IF ms_uuid(s) = m THEN 0 ELSE increase_at[s]]
  /\ routing' = NoRouting
  /\ sweep' = NoSweep
  /\ contributed' = [s \in AllSensors |-> IF ms_uuid(s) = m THEN 0 ELSE contributed[s]]
  /\ UNCHANGED <<privatizers, sensor_map, level_lookup, life_cycles, tick, raised, in_both,
                 tls, tms, measurements,
                 calc, universe>>
  /\ http' = NoRequest

\* put_sensor_batch_update -> store_and_process_updates for a batch of one
\* station.
PutBatchUpdate(batch) ==
  /\ MayRun
  /\ is_active(tms.active)
  /\ batch \in Batches(universe)
  /\ \E m \in {ms_uuid(batch[1].sensor)} :
     \E r \in {store_and_process_updates(Mgr, measurements, tms.delegations, batch,
                                         universe.value, ms_k[m])} :
       /\ Install(r.m)
       /\ measurements' = r.stored
       /\ http' = r.response
       /\ last' = Op("put_batch", "-", r.response.reason, FALSE, FALSE)
       /\ increase_at' = [s \in AllSensors |->
                            IF r.results[s].result = "none" THEN increase_at[s]
                            ELSE IF r.results[s].result = "INCREASE" THEN r.results[s].sub
                            ELSE 0]
       /\ raised' = (raised \ {s \in AllSensors : r.results[s].result # "none"})
                      \cup {s \in AllSensors : r.results[s].result \in {"ValueError", "TypeError"}}
       /\ in_both' = (in_both \ {s \in AllSensors : r.results[s].result # "none"})
                       \cup {s \in AllSensors : r.results[s].both}
       /\ contributed' = Recorded([s \in AllSensors |->
                             IF r.results[s].result \in {"KEEP", "INCREASE", "DECREASE"}
                             THEN r.results[s].sub ELSE contributed[s]])
  /\ routing' = NoRouting
  /\ sweep' = NoSweep
  /\ UNCHANGED <<ms_k, tick, tls, tms, calc, universe>>

\* A deadline that creates the next process() task whether or not the
\* previous one is done.
TickStartOverlapping ==
  /\ tms.active /\ tms.periodic = "looping"
  /\ \E todo \in {SortedDescending({l \in Levels : level_lookup[l] # {}})} :
       /\ tick' = [running |-> todo # <<>>, todo |-> todo]
       /\ last' = Op("tick", "-", IF todo = <<>> THEN "done" ELSE "started", FALSE, FALSE)
       /\ contributed' = IF todo = <<>> THEN NoContribution ELSE contributed
  /\ UNCHANGED <<privatizers, sensor_map, level_lookup, k_map, life_cycles, ms_k,
                 increase_at, raised, in_both, tls, tms, measurements,
                 calc, universe>>
  /\ http' = NoRequest
  /\ routing' = NoRouting
  /\ sweep' = NoSweep

\* periodic_processing, in its loop 'while active', starts process() when
\* no earlier one is running; _process_measurement_type fixes the levels
\* it will visit.
TickStart ==
  /\ tms.active /\ tms.periodic = "looping"
  /\ ~tick.running
  /\ \E todo \in {SortedDescending({l \in Levels : level_lookup[l] # {}})} :
       /\ tick' = [running |-> todo # <<>>, todo |-> todo]
       /\ last' = Op("tick", "-", IF todo = <<>> THEN "done" ELSE "started", FALSE, FALSE)
       /\ contributed' = IF todo = <<>> THEN NoContribution ELSE contributed
  /\ UNCHANGED <<privatizers, sensor_map, level_lookup, k_map, life_cycles, ms_k,
                 increase_at, raised, in_both, tls, tms, measurements,
                 calc, universe>>
  /\ http' = NoRequest
  /\ routing' = NoRouting
  /\ sweep' = NoSweep

\* One level of the sweep: trixel_order is the order of the tasks, order
\* the enumeration order of the k requirements, tls_result how the publish
\* of the counts ends.
TickLevel ==
  /\ tick.running
  /\ \E trixel_order \in Perms({t \in level_lookup[Head(tick.todo)] : privatizers[t].live}),
        order \in Perms(UNION {universe.ks[m] : m \in Stations}),
        tls_result \in (IF universe.tls_errors THEN TLSResults ELSE {"ok"}) :
       \E r \in {process_level(Mgr, trixel_order, order, tls_result = "ok")} :
         /\ Install(r.m)
         /\ tick' = IF r.failed \/ Len(tick.todo) = 1
                    THEN [running |-> FALSE, todo |-> <<>>]
                    ELSE [running |-> TRUE, todo |-> Tail(tick.todo)]
         /\ contributed' = IF r.failed \/ Len(tick.todo) = 1
                           THEN NoContribution ELSE contributed
         /\ last' = Op("tick", "-", IF r.failed THEN "TypeError"
                                    ELSE IF Len(tick.todo) = 1 THEN "done" ELSE "level",
                       FALSE, FALSE)
         /\ sweep' = [published |-> r.tls_updates,
                      outcome |-> IF r.tls_updates = NoSweep.published THEN "none"
                                  ELSE tls_result,
                      inserted |-> r.trixel_updates,
                      stale_privatizers |-> r.stale_privatizers,
                      previous |-> [t \in Trixels |-> IF t \in r.stale_privatizers
                                                      THEN privatizers[t].last_update
                                                      ELSE NoUpdate],
                      changed |-> r.changed]
         /\ tls' = [count |-> tls_map_after(tls.count, r, tls_result),
                    critical |-> tls.critical \/ (r.tls_updates # NoSweep.published
                                                   /\ tls_result = "TLSCriticalError")]
  /\ routing' = NoRouting
  /\ http' = NoRequest
  /\ UNCHANGED <<ms_k, increase_at, raised, in_both, tms, measurements, calc, universe>>

\* A deadline of periodic_processing at which the task of the previous
\* process() is not done: a warning, another sleep, no new task.
TickSkip ==
  /\ tick.running
  /\ last' = Op("tick", "-", "skipped", FALSE, FALSE)
  /\ routing' = NoRouting
  /\ sweep' = NoSweep
  /\ UNCHANGED <<privatizers, sensor_map, level_lookup, k_map, life_cycles, ms_k, tick,
                 increase_at, raised, in_both, tls, tms, measurements,
                 calc, universe, contributed>>
  /\ http' = NoRequest

\* The privatizers of the trixels in the order of their ids.
RECURSIVE instantiate(_, _)
instantiate(M, trixels) ==
  IF trixels = {} THEN M
  ELSE Let(Min(trixels), LAMBDA t : instantiate(get_privatizer(M, t), trixels \ {t}))

\* The steps that change only the configuration or refuse a request.
Idle(op, result) ==
  /\ last' = Op(op, "-", result, FALSE, FALSE)
  /\ routing' = NoRouting
  /\ sweep' = NoSweep
  /\ UNCHANGED <<ms_k, tick, increase_at, raised, in_both, tls, measurements, calc, universe, contributed>>

Unchanged == UNCHANGED <<privatizers, sensor_map, level_lookup, k_map, life_cycles>>

\* The status codes with which the TLS answers: OK and two of the codes
\* that the tests of sync_tls_config use.
TLSStatus == {200, 400, 409}

\* start() catches TLSCriticalError, logs it and sends SIGINT to the
\* process.
Critical(message) ==
  /\ tms' = [tms EXCEPT !.start = "shutdown"]
  /\ Idle("tls", message)

\* TLSManager.register: the TLS answers the sign-up with the id and the
\* active flag.
Register(active) ==
  /\ tms.start = "register"
  /\ tms' = [tms EXCEPT !.active = active, !.id = 1, !.start = "sync",
                        !.answer = [status |-> 201, active |-> active]]
  /\ http' = NoRequest
  /\ Idle("tls", "register") /\ Unchanged

\* TLSManager.sync_tls_config up to line 153: without an id nothing is
\* requested; the TLS answers the detail request with a status and, when
\* OK, the active flag, which is stored before it is tested.
SyncTLSConfig(status, active) ==
  /\ tms.start = "sync"
  /\ IF tms.id = 0
     THEN Critical("Own TMS ID unknown!")
     ELSE IF status # 200
     THEN /\ tms' = [tms EXCEPT !.start = "shutdown",
                                !.answer = [status |-> status, active |-> FALSE]]
          /\ Idle("tls", "TMS info retrieval")
     ELSE /\ tms' = [tms EXCEPT !.active = active,
                                !.start = IF active THEN "update" ELSE "shutdown",
                                !.answer = [status |-> status, active |-> active]]
          /\ Idle("tls", IF active THEN "sync" ELSE "TMS is deactivated by the TLS.")
  /\ http' = NoRequest
  /\ Unchanged

\* TLSManager.sync_tls_config, lines 157-171: the answer to the update of
\* the host address carries a status and, when OK, the active flag again.
UpdateTMSDetail(status, active) ==
  /\ tms.start = "update"
  /\ IF status # 200
     THEN /\ tms' = [tms EXCEPT !.start = "shutdown",
                                !.answer = [status |-> status, active |-> FALSE]]
          /\ Idle("tls", "TMS update-details")
     ELSE /\ tms' = [tms EXCEPT !.active = active, !.start = "fetch",
                                !.answer = [status |-> status, active |-> active]]
          /\ Idle("tls", "update")
  /\ http' = NoRequest
  /\ Unchanged

\* TLSManager.fetch_delegations; start() returns.
FetchDelegations ==
  /\ tms.start = "fetch"
  /\ tms' = [tms EXCEPT !.delegations = RootDelegated, !.start = "done"]
  /\ http' = NoRequest
  /\ Idle("tls", "fetch") /\ Unchanged

\* periodic_processing leaves its wait (the TMS is active and has
\* delegations) and instantiates the privatizers of the trixels that have
\* stations according to the TLS.
PeriodicResume ==
  /\ tms.periodic = "waiting"
  /\ tms.active /\ Len(tms.delegations) # 0
  /\ Install(instantiate(Mgr, {t \in Trixels : tls.count[t] > 0}))
  /\ tms' = [tms EXCEPT !.periodic = "looping"]
  /\ http' = NoRequest
  /\ Idle("periodic", "resumed")

\* periodic_processing finds the TMS not active when the task of its last
\* process() is done, and returns to its wait.
PeriodicWait ==
  /\ tms.periodic = "looping"
  /\ ~tms.active /\ ~tick.running
  /\ tms' = [tms EXCEPT !.periodic = "waiting"]
  /\ http' = NoRequest
  /\ Idle("periodic", "waiting") /\ Unchanged

\* A request to an endpoint that depends on is_active arrives while the TMS
\* is not active: 503 'TMS not active!', the handler does not run.
Refused ==
  /\ ~is_active(tms.active)
  /\ http' = Response(<<>>, 503, "TMS not active!", NoRequest.sensors, {})
  /\ Idle("refused", "TMS not active!") /\ Unchanged
  /\ UNCHANGED tms

\* The client of sensor s sends no further request for it.
SensorStops(s) ==
  /\ s \in universe.sensors
  /\ universe' = [universe EXCEPT !.sensors = @ \ {s}]
  /\ UNCHANGED <<privatizers, sensor_map, level_lookup, k_map, life_cycles, ms_k, tick, last,
                 increase_at, raised, in_both, routing, sweep, tls, tms,
                 measurements, http, calc, contributed>>

\* The k-satisfier computation of Privatizer.process (428-447) applied to one
\* input: the k requirements, the contributing stations, the count of the
\* children and the order in which the dictionary enumerates its keys.
NoCalc == [done |-> TRUE, kmap |-> [m \in Stations |-> 1], stations |-> {},
           child_ms_count |-> 0, order |-> <<>>, satisfiers |-> <<>>, max_k |-> 0]

CalcInputs ==
  {[done |-> FALSE, kmap |-> km, stations |-> st, child_ms_count |-> c, order |-> o,
    satisfiers |-> <<>>, max_k |-> 0] :
      km \in [Stations -> AllK], st \in SUBSET Stations, c \in 0 .. MaxChildCount, o \in Perms(AllK)}

ShadowMaxK ==
  /\ ~calc.done
  /\ LET sat == shadow_k_satisfiers(calc.kmap, calc.stations, calc.order)
     IN calc' = [calc EXCEPT !.done = TRUE, !.satisfiers = sat,
                             !.max_k = shadow_max_k(sat, calc.child_ms_count)]
  /\ UNCHANGED <<privatizers, sensor_map, level_lookup, k_map, life_cycles, ms_k, tick, last,
                 increase_at, raised, in_both, routing, sweep, tls, tms,
                 measurements, http, universe, contributed>>

\* ------------------------------------------------------------ specification
\* A universe: the sensors that exist, the k requirements each station may
\* choose, the sub-trixels the clients target, and whether requests arrive
\* while a tick is running; the value the sensors send, whether a publish
\* to the TLS may fail, and the trixels for which the policy's get_value
\* raises.
Universe(sensors, ks, subs, interleave) ==
  [sensors |-> sensors, ks |-> ks, subs |-> subs, value |-> NoValue, tls_errors |-> FALSE,
   raising |-> {}, interleave |-> interleave, history |-> FALSE]

\* TLSManager.start has returned: the TMS is active, root trixel 8 is
\* delegated to it and periodic_processing is in its loop of ticks.
NoAnswer == [status |-> 0, active |-> FALSE]

Running ==
  [active |-> TRUE, delegations |-> RootDelegated, periodic |-> "looping", start |-> "done",
   id |-> 1, answer |-> NoAnswer]

\* The state after construction; count is the trixel map the TLS holds.
ManagerAt(u, count) ==
  /\ universe = u
  /\ privatizers = [t \in Trixels |-> Blank]
  /\ sensor_map = [s \in AllSensors |-> NoRef]
  /\ level_lookup = [l \in Levels |-> {}]
  /\ k_map = [m \in Stations |-> 0]
  /\ life_cycles = [s \in AllSensors |-> "none"]
  /\ ms_k = [m \in Stations |-> Min(u.ks[m])]
  /\ tick = [running |-> FALSE, todo |-> <<>>]
  /\ last = Op("init", "-", "-", FALSE, FALSE)
  /\ increase_at = [s \in AllSensors |-> 0]
  /\ raised = {}
  /\ in_both = {}
  /\ routing = NoRouting
  /\ sweep = NoSweep
  /\ tls = [count |-> count, critical |-> FALSE]
  /\ measurements = {}
  /\ http = NoRequest
  /\ contributed = NoContribution

ManagerState(u) == ManagerAt(u, [t \in Trixels |-> 0])

InitManager(u) == ManagerState(u) /\ tms = Running

InitWith(u) == InitManager(u) /\ calc = NoCalc

K12 == [m \in Stations |-> {1, 2}]

K124 == [m \in Stations |-> CASE m = "A" -> {1} [] m = "B" -> {2} [] OTHER -> {2, 4}]

Next ==
  \/ \E sub \in SubTrixels, s \in AllSensors : BatchContribute(sub, s)
  \/ \E s \in AllSensors : RemoveSensor(s)
  \/ \E m \in Stations, k \in AllK : SetKRequirement(m, k)
  \/ TickStart
  \/ TickLevel

\* Two stations that target one sub-trixel; requests arrive during ticks.
Init == InitWith(Universe({"A0", "B0"}, K12, {32}, TRUE))

Spec == Init /\ [][Next]_vars

\* One sensor that targets sub-trixels of every level, the root level and a
\* level above max_level included; requests arrive during ticks.
InitLevels == InitWith(Universe({"A0"}, K12, {8, 32, 128, 512, 2048}, TRUE))

SpecLevels == InitLevels /\ [][Next]_vars

\* One sensor that targets two levels; no request arrives during a tick.
InitSeq == InitWith(Universe({"A0"}, K12, {32, 128}, FALSE))

SpecSeq == InitSeq /\ [][Next]_vars

\* Two stations that target two levels; no request arrives during a tick.
InitTwoLevels == InitWith(Universe({"A0", "B0"}, K12, {32, 128}, FALSE))

SpecTwoLevels == InitTwoLevels /\ [][Next]_vars

\* Three stations with the k requirements 1, 2 and 2 or 4; no request
\* arrives during a tick.
InitThree ==
  InitWith([Universe({"A0", "B0", "C0"}, K124, {32}, FALSE) EXCEPT !.history = TRUE])

SpecThree == InitThree /\ [][Next]_vars

\* One sensor that targets two levels and whose station chooses any k
\* requirement; no request arrives during a tick.
KAny == [m \in Stations |-> AllK]

InitAnyK == InitWith(Universe({"A0"}, KAny, {32, 128}, FALSE))

SpecAnyK == InitAnyK /\ [][Next]_vars

\* One sensor that targets two levels and may stop sending; no request
\* arrives during a tick and periodic_processing keeps running the ticks.
NextStops == Next \/ \E s \in AllSensors : SensorStops(s)

SpecStops == InitSeq /\ [][NextStops]_vars /\ WF_vars(TickStart) /\ WF_vars(TickLevel)

\* The deadlines of periodic_processing with requests arriving during a tick.
NextPeriodic == Next \/ TickSkip
InitPeriodic == InitWith(Universe({"A0"}, K12, {32, 128}, TRUE))
SpecPeriodic == InitPeriodic /\ [][NextPeriodic]_vars

\* One station that sends known values; a publish of counts may raise
\* TLSError or TLSCriticalError; no request arrives during a tick.
InitTLS ==
  InitWith([Universe({"A0"}, K12, {32}, FALSE) EXCEPT !.value = 1, !.tls_errors = TRUE])

SpecTLS == InitTLS /\ [][Next]_vars

\* A station sends batch updates for one sensor; deeper trixels may be
\* excluded from the delegation of the root trixel.
DelegationLists ==
  {<<>>,
   <<[trixel_id |-> 8, exclude |-> FALSE], [trixel_id |-> 33, exclude |-> TRUE]>>,
   <<[trixel_id |-> 32, exclude |-> FALSE], [trixel_id |-> 8, exclude |-> TRUE]>>}

NextBatch == Next \/ \E batch \in Batches(universe) : PutBatchUpdate(batch)

InitBatch ==
  /\ ManagerState(Universe({"A0"}, K12, {32, 33}, FALSE))
  /\ calc = NoCalc
  /\ tms \in {[Running EXCEPT !.delegations = d] : d \in DelegationLists}

SpecBatch == InitBatch /\ [][NextBatch]_vars

\* The start of the TMS: TLSManager.__init__ has set active to false, the
\* configuration file may hold delegations and an api token, the TLS may
\* hold station counts of an earlier run; requests arrive at any time.
NextActive ==
  \/ Next
  \/ \E active \in BOOLEAN : Register(active)
  \/ \E status \in TLSStatus, active \in BOOLEAN : SyncTLSConfig(status, active)
  \/ \E status \in TLSStatus, active \in BOOLEAN : UpdateTMSDetail(status, active)
  \/ FetchDelegations
  \/ PeriodicResume
  \/ PeriodicWait
  \/ Refused

InitActive ==
  /\ \E count \in {[t \in Trixels |-> 0], [t \in Trixels |-> IF t \in {8, 32} THEN 1 ELSE 0]} :
       ManagerAt(Universe({"A0"}, K12, {32}, TRUE), count)
  /\ calc = NoCalc
  /\ tms \in {c \in [active : {FALSE}, delegations : {<<>>, RootDelegated},
                       periodic : {"waiting"}, start : {"register", "sync"},
                       id : {0, 1}, answer : {NoAnswer}] :
                c.start = "register" => c.id = 0}

SpecActive == InitActive /\ [][NextActive]_vars

\* One sensor that sends known values to two trixels of one level; the
\* policy's get_value raises for one of the two; no request arrives during
\* a tick.
InitRaising ==
  InitWith([Universe({"A0"}, K12, {32, 33}, FALSE) EXCEPT !.value = 1, !.raising = {33}])

SpecRaising == InitRaising /\ [][Next]_vars

\* The k-satisfier computation alone, on every input of the bounded sets.
InitCalc == InitManager(Universe({}, K12, {}, FALSE)) /\ calc \in CalcInputs

NextCalc == ShadowMaxK

SpecCalc == InitCalc /\ [][NextCalc]_vars

\* --------------------------------------------------------------- properties
Hints == {"INCREASE", "DECREASE", "KEEP"}

\* A sweep has just processed its last level.
TickEnd == last.op = "tick" /\ last.result = "done"

\* Sensor s is in non-shadow mode in the privatizer registered for t.
NonShadowIn(t, s) ==
  privatizers[t].live /\ s \in privatizers[t].sensors /\ privatizers[t].shadow_map[s] = "F"

\* The total station count of the privatizer registered for t (0 if none).
TotalMsCount(t) ==
  IF t \in Trixels /\ privatizers[t].live /\ ~Crashes(Mgr, t)
  THEN get_total_contributing_ms_count(Mgr, t) ELSE 0

\* C1: at the end of every tick, the station count published for a
\* privatizer is at least the k requirement of the station of every sensor
\* that is in non-shadow mode in that privatizer.
C1_KAnonymity ==
  TickEnd => \A t \in Trixels, s \in AllSensors :
               NonShadowIn(t, s) => privatizers[t].last_update.ms >= k_map[ms_uuid(s)]

\* C2: the satisfier count used for an observed k is the number of distinct
\* contributing stations whose requirement is at most k, whatever the
\* enumeration order, and max_k_satisfiable is the largest observed k with
\* satisfier count + child count >= k (0 if none).
C2_SatisfierCount ==
  calc.done =>
    /\ \A k \in DOMAIN calc.satisfiers :
         calc.satisfiers[k] = Cardinality({m \in calc.stations : calc.kmap[m] <= k})
    /\ calc.max_k = Max({0} \cup {k \in {calc.kmap[m] : m \in calc.stations} :
                          Cardinality({m \in calc.stations : calc.kmap[m] <= k})
                            + calc.child_ms_count >= k})

\* C3: at the end of every tick every sensor is in non-shadow mode in at most
\* one privatizer.
C3_OneNonShadowPrivatizer ==
  TickEnd => \A s \in AllSensors : Cardinality({t \in Trixels : NonShadowIn(t, s)}) <= 1

\* C4: at the end of every tick the contributing station count of every
\* registered privatizer is at most the number of distinct stations that own
\* a sensor of the privatizer that is non-shadow there and whose lifecycle
\* says contributing.
C4_CountBoundedBySensors ==
  TickEnd => \A t \in Trixels : privatizers[t].live =>
    privatizers[t].contributing_ms_count <=
      Cardinality({ms_uuid(s) : s \in {x \in AllSensors : NonShadowIn(t, x) /\ life_cycles[x] = "T"}})

\* A contribute, remove_sensor or tick has just completed.
Completed ==
  \/ last.op = "contribute" /\ last.result \in Hints
  \/ last.op = "remove_sensor"
  \/ TickEnd

C6_RemoveSensorRemoves ==
  [][\A s \in AllSensors :
       (sensor_map[s].obj # "none" /\ RemoveSensor(s)) =>
         /\ sensor_map'[s] = NoRef
         /\ \A t \in {sensor_map[s].id, Parent(sensor_map[s].id)} \cap Trixels :
              ~(privatizers'[t].live /\ s \in privatizers'[t].sensors)]_vars

\* C7: a contribution to a sub-trixel of level 0 or of a level above
\* max_level fails with an error and leaves privatizers, level_lookup,
\* sensor_map, k_map and life_cycles unchanged.
C7_InvalidLevelNoChange ==
  [][\A sub \in SubTrixels, s \in AllSensors :
       ((Level(sub) = 0 \/ Level(sub) > max_level) /\ BatchContribute(sub, s)) =>
         /\ last'.result = "ValueError"
         /\ UNCHANGED <<privatizers, level_lookup, sensor_map, k_map, life_cycles>>]_vars

\* C8: a contribution to a sub-trixel of level max_level completes without
\* error and returns a hint, and no later tick fails.
C8_MaxLevelAccepted ==
  /\ (last.op = "contribute" /\ sensor_map[last.sensor].obj = "registered"
        /\ Level(sensor_map[last.sensor].id) = max_level) => last.result \in Hints
  /\ last.op = "tick" => last.result # "TypeError"

C11_FirstContributionKeeps ==
  (last.op = "contribute" /\ last.first) => last.result = "KEEP"

\* A contribute has just returned a hint to last.sensor; child and parent
\* are the privatizers registered for its sub-trixel and that trixel's parent.
Returned == last.op = "contribute" /\ last.result \in Hints

ChildOf(s) == privatizers[sensor_map[s].id]

ParentOf(s) == privatizers[Parent(sensor_map[s].id)]

\* C12: when contribute finds the child populated and the sensor non-shadow
\* in the child, then on return the sensor is in the child's sensors with
\* should_evaluate = true and is not in the parent's sensors.
C12_ChildPopulatedRouting ==
  (Returned /\ routing.contribute_to_child /\ ~routing.shadow_contributing_to_child) =>
    /\ last.sensor \in ChildOf(last.sensor).sensors
    /\ ChildOf(last.sensor).evaluation_map[last.sensor] = "T"
    /\ last.sensor \notin ParentOf(last.sensor).sensors

\* C13: when contribute finds the sensor in shadow mode in the child and
\* non-shadow in the parent, then on return the sensor is in the child's
\* sensors with should_evaluate = false and in the parent's sensors with
\* should_evaluate = true, whatever the parent's total count is.
C13_DefaultRouting ==
  (Returned /\ routing.shadow_contributing_to_child
            /\ ~routing.shadow_contributing_to_parent) =>
    /\ last.sensor \in ChildOf(last.sensor).sensors
    /\ ChildOf(last.sensor).evaluation_map[last.sensor] = "F"
    /\ last.sensor \in ParentOf(last.sensor).sensors
    /\ ParentOf(last.sensor).evaluation_map[last.sensor] = "T"

\* C14 as stated: when contribute finds the sensor in shadow mode (or
\* unknown) in both the child and the parent, then on return the sensor is in
\* the sensors of both, and both have should_evaluate = true for it.
C14_ShadowOnlyBoth ==
  (Returned /\ routing.shadow_contributing_to_child
            /\ routing.shadow_contributing_to_parent) =>
    /\ last.sensor \in ChildOf(last.sensor).sensors
    /\ ChildOf(last.sensor).evaluation_map[last.sensor] = "T"
    /\ last.sensor \in ParentOf(last.sensor).sensors
    /\ ParentOf(last.sensor).evaluation_map[last.sensor] = "T"

\* C14 amended: when contribute finds the sensor in shadow mode (or unknown)
\* in both the child and the parent, then on return the sensor is in the
\* parent's sensors with should_evaluate = true and is not in the child's
\* sensors.
C14_ShadowOnlyParent ==
  (Returned /\ routing.shadow_contributing_to_child
            /\ routing.shadow_contributing_to_parent) =>
    /\ last.sensor \notin ChildOf(last.sensor).sensors
    /\ last.sensor \in ParentOf(last.sensor).sensors
    /\ ParentOf(last.sensor).evaluation_map[last.sensor] = "T"

\* A contribute that is not the sensor's first one found the sensor in shadow
\* mode in the child and in the parent.
C14_Witness ==
  /\ Returned /\ ~last.first
  /\ routing.shadow_contributing_to_child /\ routing.shadow_contributing_to_parent
  /\ last.sensor \in ParentOf(last.sensor).sensors

\* C15: after every successful contribute the sensor is a member of the
\* sensors of the child or of the parent.
C15_NeverRemovedFromBoth ==
  Returned => \/ last.sensor \in ChildOf(last.sensor).sensors
              \/ last.sensor \in ParentOf(last.sensor).sensors

\* C16: after a contribute, a sensor that is a member of a registered
\* privatizer has should_evaluate = true in a privatizer that contains it.
C16_SomeoneEvaluates ==
  Returned =>
    LET holders == {t \in Trixels : privatizers[t].live /\ last.sensor \in privatizers[t].sensors}
    IN holders # {} => \E t \in holders : privatizers[t].evaluation_map[last.sensor] = "T"

\* The sensor is in sensor_map or in the sensors of a registered privatizer.
Known(s) ==
  \/ sensor_map[s] # NoRef
  \/ \E t \in Trixels : privatizers[t].live /\ s \in privatizers[t].sensors

\* C17: if a sensor that is in sensor_map stops contributing and ticks keep
\* running, the sensor is eventually removed from sensor_map and from the
\* sensors of every registered privatizer.
C17_StaleSensorRemoved ==
  \A s \in AllSensors :
     (s \notin universe.sensors /\ sensor_map[s] # NoRef) ~> ~Known(s)

\* C18: within one tick the levels are processed strictly from deepest to
\* shallowest: a step of the tick processes the privatizers of the deepest
\* level that is left and no other, that level's observations included, and
\* every level that is left afterwards is shallower.
C18_DeepestLevelFirst ==
  [][(tick.running /\ tick' # tick) =>
       /\ tick'.todo \in {Tail(tick.todo), <<>>}
       /\ \A i \in 1 .. Len(tick'.todo) : tick'.todo[i] < Head(tick.todo)
       /\ \A t \in Trixels :
            privatizers'[t].last_update # privatizers[t].last_update =>
              Level(t) = Head(tick.todo)]_vars

\* A tick has processed a privatizer of a deeper level and has a shallower
\* level left to process.
C18_Witness ==
  /\ tick.running /\ last.op = "tick" /\ last.result = "level"
  /\ \E t \in Trixels : /\ privatizers[t].live /\ privatizers[t].last_update.has
                         /\ Level(t) > Head(tick.todo)

\* C19: periodic_processing never runs two ticks at once: a deadline that
\* finds the previous tick still running starts no process() and leaves the
\* running tick and the privatizers as they are (the tick is skipped).
C19_NoConcurrentTicks ==
  [][((last' # last \/ tick' # tick) /\ tick.running /\ last'.op = "tick"
        /\ last'.result \in {"started", "skipped"}) =>
       (last'.result = "skipped" /\ tick' = tick /\ privatizers' = privatizers)]_vars

\* A deadline was skipped while a tick that has processed a level is running.
C19_Witness ==
  /\ tick.running /\ last.op = "tick" /\ last.result = "skipped"
  /\ \E t \in Trixels : privatizers[t].live /\ privatizers[t].last_update.has

\* C20: the mutations of ingest and of the tick are serialized: while a tick
\* is running (started, shallowest level not yet processed) no contribute and
\* no remove_sensor request changes sensor_map, the sensors of a privatizer
\* or its shadow map.
C20_MutationsSerialized ==
  [][(tick.running /\ tick' = tick /\ last'.op \in {"contribute", "remove_sensor"}) =>
       /\ sensor_map' = sensor_map
       /\ \A t \in Trixels : /\ privatizers'[t].sensors = privatizers[t].sensors
                              /\ privatizers'[t].shadow_map = privatizers[t].shadow_map]_vars

\* A step of the tick that processed the deepest level left without a task
\* raising, and the privatizers it processed.
LevelStep == tick.running /\ tick' # tick /\ last'.result # "TypeError"
Processed == {t \in Trixels : tick.running /\ Level(t) = Head(tick.todo) /\ privatizers[t].live}

\* C21: a publish that fails with a TLS error changes no tls_ms_count, the
\* observations of the level are still inserted, and every count that still
\* differs from the tls_ms_count of its privatizer (from the count the TLS
\* holds) is sent again in the next tick; a publish that succeeds sets tls_ms_count to the published count,
\* and a privatizer whose count equals its tls_ms_count is not published.
C21_PublishRetried ==
  [][LevelStep =>
       /\ sweep'.outcome \in {"TLSError", "TLSCriticalError"} =>
            /\ \A t \in Trixels : (privatizers[t].live /\ privatizers'[t].live) =>
                  privatizers'[t].tls_ms_count = privatizers[t].tls_ms_count
            /\ \A t \in Processed :
                  (privatizers'[t].live /\ privatizers'[t].last_update.value # NoValue) =>
                    sweep'.inserted[t] = privatizers'[t].last_update
       /\ \A t \in Processed : privatizers'[t].live =>
            (privatizers'[t].last_update.ms # privatizers[t].tls_ms_count <=>
               sweep'.published[t] = privatizers'[t].last_update.ms)
       /\ \A t \in Trixels \ Processed : (Level(t) = Head(tick.todo) /\ tls.count[t] # 0) =>
            sweep'.published[t] = 0
       /\ sweep'.outcome = "ok" =>
            \A t \in Trixels : (sweep'.published[t] # NoCount /\ privatizers'[t].live) =>
              privatizers'[t].tls_ms_count = sweep'.published[t]
       /\ \A t \in Processed :
            (privatizers'[t].live /\ privatizers'[t].last_update.ms = privatizers[t].tls_ms_count)
              => sweep'.published[t] = NoCount]_vars

\* C22: once a publish of counts has raised TLSCriticalError (HTTP 401) the
\* service shuts down: no further tick is started.
C22_CriticalStopsTicks ==
  ~(tls.critical /\ last.op = "tick" /\ last.result = "started")

\* C23: a privatizer that is stale after its process() is removed in that
\* tick from the privatizers and its trixel id from level_lookup; when the
\* tick is done no registered privatizer is stale.
C23_StaleRemoved ==
  [][LevelStep =>
       /\ \A t \in Processed :
            /\ privatizers'[t].live => ~privatizers'[t].stale
            /\ ~privatizers'[t].live => t \notin level_lookup'[Level(t)]
       /\ last'.result = "done" =>
            \A t \in Trixels : privatizers'[t].live => ~privatizers'[t].stale]_vars

\* C24: for every privatizer removed as stale whose previously published
\* value was not unknown, the observations inserted for the level hold an
\* entry for its trixel with value unknown and station count 0.
C24_FinalObservation ==
  [][LevelStep =>
       \A t \in sweep'.stale_privatizers :
         (privatizers[t].last_update.has /\ privatizers[t].last_update.value # NoValue) =>
           /\ ~privatizers'[t].live
           /\ sweep'.inserted[t].has
           /\ sweep'.inserted[t].value = NoValue
           /\ sweep'.inserted[t].ms = 0]_vars

\* A privatizer that had published a known value was removed as stale and
\* the unknown observation was inserted for its trixel.
C24_Witness ==
  \E t \in sweep.stale_privatizers :
    /\ sweep.previous[t].has /\ sweep.previous[t].value # NoValue
    /\ sweep.inserted[t] = UnknownUpdate /\ ~privatizers[t].live

\* C25: in every reachable state every trixel that has a registered
\* privatizer is a member of level_lookup[level of the trixel].
C25_LevelLookupCoversPrivatizers ==
  \A t \in Trixels : privatizers[t].live => t \in level_lookup[Level(t)]

\* A privatizer is registered while the privatizer of another trixel of
\* level_lookup has been removed.
C25_Witness ==
  /\ \E t \in Trixels : privatizers[t].live /\ privatizers[t].sensors # {}
  /\ \E u \in Trixels : ~privatizers[u].live /\ u \in level_lookup[Level(u)]

\* The trixels of a batch that are delegated to this TMS, and those that are not.
DelegatedOf(batch) ==
  {batch[i].trixel : i \in {j \in 1 .. Len(batch) : is_delegated(tms.delegations, batch[j].trixel)}}
NotDelegatedOf(batch) ==
  {batch[i].trixel : i \in {j \in 1 .. Len(batch) : ~is_delegated(tms.delegations, batch[j].trixel)}}

\* A batch update with delegated and non-delegated trixels was answered
\* without a client or server error.
MixedBatchAnswered ==
  /\ last'.op = "put_batch" /\ http'.status \in {200, 303}
  /\ DelegatedOf(http'.request) # {} /\ NotDelegatedOf(http'.request) # {}

\* C26: for a batch with delegated and non-delegated trixels the response
\* reports every non-delegated trixel as "wrong TMS", also when a delegated
\* entry yields a hint; no non-delegated trixel is routed to a privatizer
\* and the sensors of the delegated entries have contributed.
C26_WrongTMSReported ==
  [][MixedBatchAnswered =>
       /\ http'.reason = "WRONG_TMS"
       /\ http'.trixel_ids = NotDelegatedOf(http'.request)
       /\ \A t \in NotDelegatedOf(http'.request) \cap Trixels :
            /\ privatizers'[t] = privatizers[t]
            /\ t \in level_lookup'[Level(t)] <=> t \in level_lookup[Level(t)]
       /\ \A i \in 1 .. Len(http'.request) :
            http'.request[i].trixel \in DelegatedOf(http'.request) =>
              sensor_map'[http'.request[i].sensor] # NoRef]_vars

\* The delegations of the configuration that lie on the path from the root
\* trixel to the trixel id, the id itself included.
DelegatedAbove(trixel_id) ==
  {tms.delegations[i] : i \in {j \in 1 .. Len(tms.delegations) :
     \E n \in 0 .. Level(trixel_id) : ShiftRight(trixel_id, n) = tms.delegations[j].trixel_id}}

\* The deepest delegation on the path of the trixel id is an inclusion.
DeepestIncludes(trixel_id) ==
  \E d \in DelegatedAbove(trixel_id) :
    /\ ~d.exclude
    /\ \A e \in DelegatedAbove(trixel_id) : Level(e.trixel_id) <= Level(d.trixel_id)

\* C27: is_delegated(id) is true exactly when an ancestor of id, id
\* included, is in the delegations and the deepest such delegation has
\* exclude = false; a batch update answered "wrong TMS" names exactly the
\* trixels of the request for which this is not the case.
C27_DeepestDelegationDecides ==
  /\ \A trixel_id \in SubTrixels \cup {129, 132} :
       is_delegated(tms.delegations, trixel_id) <=> DeepestIncludes(trixel_id)
  /\ (last.op = "put_batch" /\ http.reason = "WRONG_TMS") =>
       http.trixel_ids = {http.request[i].trixel : i \in {j \in 1 .. Len(http.request) :
                            ~DeepestIncludes(http.request[j].trixel)}}

\* A batch update was answered "wrong TMS" although one of its trixels lies
\* below an exclusion: a deeper inclusion delegates it.
C27_Witness ==
  /\ last.op = "put_batch" /\ http.reason = "WRONG_TMS"
  /\ \E i \in 1 .. Len(http.request) :
       /\ Cardinality(DelegatedAbove(http.request[i].trixel)) = 2
       /\ http.request[i].trixel \notin http.trixel_ids

\* C26, the parts that hold: no non-delegated trixel of a batch is routed
\* and the sensors of its delegated entries have contributed.
C26_DelegatedProcessed ==
  [][MixedBatchAnswered =>
       /\ \A t \in NotDelegatedOf(http'.request) \cap Trixels :
            /\ privatizers'[t] = privatizers[t]
            /\ t \in level_lookup'[Level(t)] <=> t \in level_lookup[Level(t)]
       /\ \A i \in 1 .. Len(http'.request) :
            http'.request[i].trixel \in DelegatedOf(http'.request) =>
              sensor_map'[http'.request[i].sensor] # NoRef]_vars

\* The measurements of a batch in the trixels delegated to this TMS.
DelegatedUpdates(batch) == SelectSeq(batch, LAMBDA e : is_delegated(tms.delegations, e.trixel))

\* A step that answers a batch update.
BatchStep == last'.op = "put_batch" /\ http'.request # <<>>

\* The privacy manager and the stored measurements are left as they were.
Rejected ==
  /\ http'.status \in 400 .. 499
  /\ UNCHANGED <<privatizers, sensor_map, level_lookup, k_map, life_cycles, measurements>>

\* C28 as stated: an update whose (sensor, timestamp) pair is stored, or a
\* batch with more than one measurement of a sensor, is rejected with a
\* client error and changes no privacy-manager state.
C28_DuplicateRejected ==
  [][(/\ BatchStep
      /\ \/ Pairs(http'.request) \cap measurements # {}
         \/ Len(http'.request) # Cardinality(sensor_ids(http'.request)))
     => Rejected]_vars

\* C28, amended: the same for the measurements in the trixels that are
\* delegated to this TMS, which is active.
C28_DelegatedDuplicateRejected ==
  [][(/\ BatchStep
      /\ tms.active
      /\ \/ Pairs(DelegatedUpdates(http'.request)) \cap measurements # {}
         \/ Len(DelegatedUpdates(http'.request))
              # Cardinality(sensor_ids(DelegatedUpdates(http'.request))))
     => Rejected]_vars

\* A repeated measurement was rejected while its sensor contributes to a
\* privatizer with a published count.
C28_Witness ==
  /\ last.op = "put_batch" /\ http.status = 400
  /\ Pairs(DelegatedUpdates(http.request)) \cap measurements # {}
  /\ \E i \in 1 .. Len(http.request) :
       /\ sensor_map[http.request[i].sensor] # NoRef
       /\ privatizers[http.request[i].trixel].tls_ms_count = 1

\* contribute is called again with the arguments of the call before it:
\* the same sensor and sub-trixel, and no other operation in between.
ContributeRepeated ==
  /\ last.op = "contribute" /\ last'.op = "contribute"
  /\ last'.sensor = last.sensor
  /\ last'.sub = last.sub

\* C29: contribute called twice in a row with the same arguments and no
\* tick in between returns the same hint both times, and the state after
\* the second call equals the state after the first.
C29_ContributeIdempotent ==
  [][ContributeRepeated =>
       /\ last'.result = last.result
       /\ UNCHANGED <<privatizers, sensor_map, level_lookup, k_map, life_cycles>>]_vars

\* C30: while the TMS is not active (before it is synchronized with the
\* TLS, or after the TLS reported it deactivated) no handler of a request
\* runs: a request is refused with 503 'TMS not active!' and changes no
\* privacy-manager state; periodic_processing starts no tick, so that the
\* only steps of a tick are the remaining levels of one started before,
\* and without such a tick nothing changes the privacy-manager state.
C30_InactiveRefuses ==
  [][~tms.active =>
       /\ last'.op \in {"refused", "tick", "tls", "periodic"}
       /\ last'.op = "refused" =>
            /\ http'.status = 503 /\ http'.reason = "TMS not active!"
            /\ UNCHANGED <<privatizers, sensor_map, level_lookup, k_map, life_cycles>>
       /\ last'.op = "tick" => tick.running
       /\ ~tick.running =>
            UNCHANGED <<privatizers, sensor_map, level_lookup, k_map, life_cycles>>]_vars

\* A request was refused after the TLS reported the TMS deactivated, while
\* a tick started before is still running and a sensor is registered.
C30_Witness ==
  /\ ~tms.active /\ tms.start \in {"fetch", "done"}
  /\ last.op = "refused" /\ http.status = 503
  /\ tick.running
  /\ \E s \in AllSensors : sensor_map[s] # NoRef

\* The registered privatizers of the level that a running tick processes
\* next, and those of them for which get_value raises.
AtLevel == {t \in Trixels : tick.running /\ Level(t) = Head(tick.todo) /\ privatizers[t].live}
RaisingAtLevel == {t \in AtLevel : get_value_raises(t)}

\* C31: an exception raised by get_value of one privatizer during a tick
\* is scoped to that privatizer: it keeps its last published update, every
\* other privatizer of the level is processed and its observation with a
\* known value is inserted, and the shallower levels are still processed
\* in that tick.
C31_PolicyErrorScoped ==
  [][(tick.running /\ tick' # tick /\ RaisingAtLevel # {}) =>
       /\ \A t \in RaisingAtLevel : privatizers'[t].last_update = privatizers[t].last_update
       /\ \A t \in AtLevel \ RaisingAtLevel :
            /\ privatizers'[t].live => privatizers'[t].last_update.has
            /\ privatizers'[t].last_update.value # NoValue => sweep'.inserted[t] # NoUpdate
       /\ Len(tick.todo) > 1 => (tick'.running /\ tick'.todo = Tail(tick.todo))]_vars

\* The stations with a sensor that contributed below trixel p since the
\* last tick ended and whose requirement is at most k; the stations that
\* have a sensor registered.
ContributedUnder(p, k) ==
  {ms_uuid(s) : s \in {x \in AllSensors : /\ contributed[x] # 0
                                           /\ Parent(contributed[x]) = p
                                           /\ ms_k[ms_uuid(x)] <= k}}
RegisteredStations == {ms_uuid(s) : s \in {x \in AllSensors : sensor_map[x] # NoRef}}

\* C32: at the tick after contributions to sub-trixels of p, a station
\* that contributes alone with a requirement k > 1 leaves the published
\* count of p at 0 and its value unknown; once k stations with a
\* requirement of at most k have contributed, the published
\* measurement-station count of p is at least k.
C32_PopulationProgress ==
  [][(tick.running /\ tick' # tick) =>
       \A p \in AtLevel :
         /\ \A m \in Stations :
              (RegisteredStations = {m} /\ ms_k[m] > 1 /\ m \in ContributedUnder(p, ms_k[m]))
                => (privatizers'[p].last_update.ms = 0
                      /\ privatizers'[p].last_update.value = NoValue)
         /\ \A k \in AllK :
              Cardinality(ContributedUnder(p, k)) >= k
                => privatizers'[p].last_update.ms >= k]_vars

\* The messages of the TLSCriticalError that sync_tls_config raises.
SyncErrors ==
  {"Own TMS ID unknown!", "TMS info retrieval", "TMS is deactivated by the TLS.",
   "TMS update-details"}

\* C33: a step of sync_tls_config that finds the own id unknown, receives
\* a non-OK status for the detail request or for the detail update, or
\* receives an answer that reports the TMS deactivated, raises a
\* TLSCriticalError and leaves the TMS not active.
C33_SyncFailureInactive ==
  [][(tms.start \in {"sync", "update"} /\ tms' # tms
        /\ (tms.id = 0 \/ tms'.answer.status # 200 \/ ~tms'.answer.active))
       => (last'.result \in SyncErrors /\ tms'.start = "shutdown" /\ ~tms'.active)]_vars

\* C34: for every privatizer, sensor and should_evaluate, add_sensor keeps
\* the shadow flag of a sensor that is present, puts a sensor that is not
\* present in shadow mode, and a second call with the same arguments
\* changes nothing.
C34_AddSensorIdempotent ==
  \A t \in Trixels, s \in AllSensors, should_evaluate \in BOOLEAN :
    \E o \in {privatizers[t]} : \E added \in {add_sensor(o, s, should_evaluate)} :
      /\ s \in o.sensors => added.shadow_map[s] = o.shadow_map[s]
      /\ s \notin o.sensors => added.shadow_map[s] = "T"
      /\ s \in added.sensors
      /\ added.evaluation_map[s] = (IF should_evaluate THEN "T" ELSE "F")
      /\ add_sensor(added, s, should_evaluate) = added

\* A contribute added a sensor again to a privatizer in which it is not in
\* shadow mode.
C34_Witness ==
  /\ last.op = "contribute" /\ ~last.first /\ last.result \in Hints
  /\ \E t \in Trixels : /\ privatizers[t].live
                        /\ last.sensor \in privatizers[t].current_contributors
                        /\ privatizers[t].shadow_map[last.sensor] = "F"

\* C35: for every privatizer and sensor, remove_sensor leaves the sensor
\* out of the members, of the shadow map, of the evaluation map and of the
\* current contributors of the latest policy, and a second call changes
\* nothing.
C35_RemoveSensorDropsState ==
  \A t \in Trixels, s \in AllSensors :
    \E removed \in {remove_sensor(privatizers[t], s)} :
      /\ s \notin removed.sensors
      /\ removed.shadow_map[s] = "none"
      /\ removed.evaluation_map[s] = "none"
      /\ s \notin removed.current_contributors
      /\ remove_sensor(removed, s) = removed

\* C36: the value that a tick publishes for a privatizer of the latest
\* policy is known only if a child privatizer has a known value or a
\* sensor is a non-shadow member of the privatizer at that tick; without
\* either, the published value is unknown.
C36_LatestValueSource ==
  [][(tick.running /\ tick' # tick) =>
       \A t \in AtLevel :
         sweep'.inserted[t].value # NoValue =>
           \/ \E c \in Children(t) : /\ privatizers'[c].live
                                     /\ privatizers'[c].last_update.value # NoValue
           \/ \E s \in privatizers'[t].sensors : ~sensor_in_shadow_mode(privatizers'[t], s)]_vars

\* The value and the counts of two updates differ; the update that a
\* privatizer has before its first process() holds no value and no count.
Differs(previous, update) == [previous EXCEPT !.has = TRUE] # [update EXCEPT !.has = TRUE]

\* C37: the update that a tick computes for a privatizer has changed = True
\* exactly when its value, its measurement-station count or its sensor
\* count differs from the update computed before, the first update with a
\* value or a non-zero count included.
C37_ChangedOnDifference ==
  [][(tick.running /\ tick' # tick) =>
       \A t \in {x \in AtLevel : privatizers'[x].last_update.has /\ ~get_value_raises(x)} :
         t \in sweep'.changed <=> Differs(privatizers[t].last_update, privatizers'[t].last_update)]_vars

\* C37 (amended): the update has changed = True exactly when the
\* privatizer computed an update before and the value or a count differs
\* from it; the first update of a privatizer has changed = False.
C37_ChangedAfterFirst ==
  [][(tick.running /\ tick' # tick) =>
       \A t \in {x \in AtLevel : privatizers'[x].last_update.has /\ ~get_value_raises(x)} :
         t \in sweep'.changed <=> /\ privatizers[t].last_update.has
                                  /\ Differs(privatizers[t].last_update,
                                             privatizers'[t].last_update)]_vars

\* A tick computed an update with changed = True that holds a value and a
\* count.
C37_Witness ==
  \E t \in Trixels : /\ t \in sweep.changed
                      /\ privatizers[t].last_update.ms > 0
                      /\ privatizers[t].last_update.value # NoValue

\* C38: whenever a privatizer is registered for the parent trixel of a
\* registered privatizer, that privatizer is the parent the child uses,
\* also after the parent was removed as stale and created again.
C38_ParentIsRegistered ==
  \A t \in Trixels :
    (privatizers[t].live /\ Level(t) > 0 /\ privatizers[Parent(t)].live)
      => privatizers[t].parent_privatizer = "registered"

\* C39: when no tick is running, every privatizer that sensor_map refers to
\* is the privatizer registered for its trixel id.
C39_SensorMapRegistered ==
  ~tick.running =>
    \A s \in AllSensors :
      sensor_map[s] # NoRef =>
        (sensor_map[s].obj = "registered" /\ privatizers[sensor_map[s].id].live)

\* C40: a contribute for sub-trixel sub that finds the total
\* measurement-station count of the parent at least the sensor's k does not
\* return DECREASE, and does not remove from the parent a sensor that is
\* non-shadow there, unless the sensor is non-shadow in the child.
C40_NoDecreaseWhileParentPopulated ==
  [][\A sub \in Trixels, s \in AllSensors :
       (/\ BatchContribute(sub, s)
        /\ last'.result \in Hints
        /\ Level(sub) > 0
        /\ privatizers[Parent(sub)].live
        /\ TotalMsCount(Parent(sub)) >= ms_k[ms_uuid(s)])
         => /\ last'.result # "DECREASE"
            /\ (NonShadowIn(Parent(sub), s) /\ s \notin privatizers'[Parent(sub)].sensors)
                 => NonShadowIn(sub, s)]_vars

====
